---- MODULE Spec2Model ----
(***************************************************************************)
(* A model of the prism linear-algebra kernel (Vector, Matrix, Ray3D) and  *)
(* of the sphere-tracing loop of main.rs.                                  *)
(*                                                                         *)
(* Scalars (f32 / f64 in the source) are modelled as exact rationals       *)
(* <<numerator, denominator>> in lowest terms with a positive denominator. *)
(* A division by zero gives the single absorbing value NonFinite, the      *)
(* source's NaN (its infinities are not told apart from it); every         *)
(* comparison with it is false, as a comparison with NaN is.               *)
(*                                                                         *)
(* A scalar that is a binary fraction is an f32 value, and a result that   *)
(* is a binary fraction is rounded as f32 rounds it: to 24 significant     *)
(* bits, ties to even.  A scalar that is no binary fraction (0.001, 1/3)   *)
(* stands for the float nearest to it and is computed with exactly.  The   *)
(* exponent range (overflow to infinity, subnormals) is not modelled.      *)
(*                                                                         *)
(* Arrays are functions over 0 .. N-1, as the source indexes them.         *)
(***************************************************************************)
EXTENDS Integers, Sequences, FiniteSets, TLC

\* ------------------------------------------------------------------------
\* Scalars
\* ------------------------------------------------------------------------

IAbs(k) == IF k < 0 THEN -k ELSE k

RECURSIVE GCD(_, _)
GCD(a, b) == IF b = 0 THEN a ELSE GCD(b, a % b)

NonFinite == <<0, 0>>

IsFinite(a) == a[2] # 0

\* The rational n / d in lowest terms; d = 0 is a division by zero.
Rat(num, den) ==
    IF den = 0 THEN NonFinite
    ELSE LET g == GCD(IAbs(num), IAbs(den))
             sign == IF den < 0 THEN -1 ELSE 1
         IN  <<(sign * num) \div g, (sign * den) \div g>>

\* f32::MANTISSA_DIGITS: the significant bits of an f32
F32_MANTISSA_DIGITS == 24

\* The powers of two of the model's integers
Pow2s == {2 ^ e : e \in 0 .. 30}

IsPow2(k) == k \in Pow2s

\* The number of binary digits of k
BitLen(k) == Cardinality({p \in Pow2s : p <= k})

\* The weight of the last of the 24 significant bits of the integer mag
Ulp(mag) == 2 ^ (BitLen(mag) - F32_MANTISSA_DIGITS)

\* mag rounded to the nearest multiple of unit, a tie to the even multiple
RoundMagnitude(mag, unit) ==
    unit * ((mag \div unit) +
            IF \/ 2 * (mag % unit) > unit
               \/ 2 * (mag % unit) = unit /\ (mag \div unit) % 2 = 1
            THEN 1 ELSE 0)

\* The greatest power of two that divides both k and the power of two d
CommonPow2(k, d) == 2 ^ Cardinality({p \in Pow2s : p > 1 /\ k % p = 0 /\ d % p = 0})

\* The binary fraction num / den in lowest terms
Reduced(num, den) == <<num \div CommonPow2(num, den), den \div CommonPow2(num, den)>>

\* The f32 nearest to the binary fraction a, ties to even
Round(a) ==
    IF ~IsFinite(a) \/ IAbs(a[1]) < 2 ^ F32_MANTISSA_DIGITS \/ ~IsPow2(a[2]) THEN a
    ELSE Reduced((IF a[1] < 0 THEN -1 ELSE 1) * RoundMagnitude(IAbs(a[1]), Ulp(IAbs(a[1]))),
                 a[2])

\* T::default() of f32 / f64
Zero == <<0, 1>>

\* GetOne::get_one
get_one == <<1, 1>>

\* impl Add / Sub / Mul / Div / Neg for the scalar type
FAdd(a, b) ==
    IF ~IsFinite(a) \/ ~IsFinite(b) THEN NonFinite
    ELSE LET g == GCD(a[2], b[2])
         IN  Round(Rat(a[1] * (b[2] \div g) + b[1] * (a[2] \div g), (a[2] \div g) * b[2]))

FNeg(a) == IF IsFinite(a) THEN <<-a[1], a[2]>> ELSE NonFinite

FSub(a, b) == FAdd(a, FNeg(b))

FMul(a, b) ==
    IF ~IsFinite(a) \/ ~IsFinite(b) THEN NonFinite
    ELSE LET g1 == GCD(IAbs(a[1]), b[2])
             g2 == GCD(IAbs(b[1]), a[2])
         IN  Round(Rat((a[1] \div g1) * (b[1] \div g2), (a[2] \div g2) * (b[2] \div g1)))

FDiv(a, b) ==
    IF ~IsFinite(a) \/ ~IsFinite(b) \/ b[1] = 0 THEN NonFinite
    ELSE FMul(a, Rat(b[2], b[1]))

\* impl PartialOrd / PartialEq for the scalar type
FLt(a, b) == IsFinite(a) /\ IsFinite(b) /\ a[1] * b[2] < b[1] * a[2]

FGt(a, b) == FLt(b, a)

FLe(a, b) == IsFinite(a) /\ IsFinite(b) /\ a[1] * b[2] <= b[1] * a[2]

FGe(a, b) == FLe(b, a)

FEq(a, b) == IsFinite(a) /\ IsFinite(b) /\ a = b

FNe(a, b) == ~FEq(a, b)

\* f32::abs
FAbs(a) == IF IsFinite(a) THEN <<IAbs(a[1]), a[2]>> ELSE NonFinite

\* An integer as a scalar
Int2F(k) == <<k, 1>>

\* ------------------------------------------------------------------------
\* Arrays and outcomes
\* ------------------------------------------------------------------------

\* The array literal [x0, x1, ...]
Array(seq) == [idx \in 0 .. Len(seq) - 1 |-> seq[idx + 1]]

\* A panic (index out of range, unwrap of None, explicit panic!)
Panic(msg) == [tag |-> "panic", msg |-> msg]

\* A value returned normally
Ok(v) == [tag |-> "ok", val |-> v]

\* Option<T>
None == [some |-> FALSE]

Some(v) == [some |-> TRUE, val |-> v]

\* ------------------------------------------------------------------------
\* Scalar delegates (component.rs)
\* ------------------------------------------------------------------------

\* The largest k in lo .. hi with k * k <= n
RECURSIVE ISqrtSearch(_, _, _)
ISqrtSearch(sq, lo, hi) ==
    IF lo >= hi THEN lo
    ELSE LET mid == (lo + hi + 1) \div 2
         IN  IF mid * mid <= sq THEN ISqrtSearch(sq, mid, hi)
             ELSE ISqrtSearch(sq, lo, mid - 1)

ISqrt(sq) == ISqrtSearch(sq, 0, IF sq < 46340 THEN sq ELSE 46340)

\* The integer part of num * 10^digits / den, for num >= 0 and den > 0
RECURSIVE ScaleFloor(_, _, _)
ScaleFloor(num, den, digits) ==
    IF digits = 0 THEN num \div den
    ELSE (num \div den) * 10 ^ digits + ScaleFloor((num % den) * 10, den, digits - 1)

\* SqrtDelegate::sqrt_delegate (f32::sqrt): exact on the square of a
\* rational, and rounded down to a multiple of 1/100 otherwise (the exact
\* scalars of this model cannot hold an irrational root); the square root of
\* a negative number is NaN.
sqrt_delegate(a) ==
    IF ~IsFinite(a) \/ a[1] < 0 THEN NonFinite
    ELSE LET kn == ISqrt(a[1])
             kd == ISqrt(a[2])
         IN  IF kn * kn = a[1] /\ kd * kd = a[2] THEN Rat(kn, kd)
             ELSE Rat(ISqrt(ScaleFloor(a[1], a[2], 4)), 100)

\* ------------------------------------------------------------------------
\* Vector<T, COUNT> (vector.rs): the data array, indexed 0 .. COUNT - 1
\* ------------------------------------------------------------------------

COUNT(v) == Cardinality(DOMAIN v)

\* Vector::from_array
from_array(d) == d

\* Vector::from_single
from_single(d, count) == [c \in 0 .. count - 1 |-> d]

\* Vector::default
VectorDefault(count) == [c \in 0 .. count - 1 |-> Zero]

\* Vector::sum: the components added up in index order, starting from the
\* default value
RECURSIVE SumFrom(_, _, _)
SumFrom(v, c, acc) ==
    IF c >= COUNT(v) THEN acc ELSE SumFrom(v, c + 1, FAdd(acc, v[c]))

sum(v) == SumFrom(v, 0, Zero)

\* vector_op! (Add, Sub, Mul, Div between two vectors of one size)
VAdd(a, b) == [c \in DOMAIN a |-> FAdd(a[c], b[c])]

\* A subtraction with its operands the other way round
VSubReversed(a, b) == [c \in DOMAIN a |-> FSub(b[c], a[c])]

VSub(a, b) == [c \in DOMAIN a |-> FSub(a[c], b[c])]

VMul(a, b) == [c \in DOMAIN a |-> FMul(a[c], b[c])]

VDiv(a, b) == [c \in DOMAIN a |-> FDiv(a[c], b[c])]

\* component_op! (Add, Sub, Mul, Div between a vector and a scalar)
VAddS(a, s) == [c \in DOMAIN a |-> FAdd(a[c], s)]

VSubS(a, s) == [c \in DOMAIN a |-> FSub(a[c], s)]

VMulS(a, s) == [c \in DOMAIN a |-> FMul(a[c], s)]

VDivS(a, s) == [c \in DOMAIN a |-> FDiv(a[c], s)]

\* impl Neg for Vector
VNeg(a) == [c \in DOMAIN a |-> FNeg(a[c])]

\* impl PartialEq for Vector: false as soon as one pair of components
\* differs under the scalar's !=
VEq(a, b) == \A c \in DOMAIN a : ~FNe(a[c], b[c])

\* Vector::dot
RECURSIVE DotFrom(_, _, _, _)
DotFrom(a, b, c, d) ==
    IF c >= COUNT(a) THEN d ELSE DotFrom(a, b, c + 1, FAdd(d, FMul(a[c], b[c])))

dot(a, rhs) == DotFrom(a, rhs, 0, Zero)

\* A cross that answers the default vector for the sizes other than 3
cross_lenient(a, rhs) ==
    IF COUNT(a) = 3
    THEN Ok(Array(<<FSub(FMul(a[1], rhs[2]), FMul(a[2], rhs[1])),
                    FSub(FMul(a[2], rhs[0]), FMul(a[0], rhs[2])),
                    FSub(FMul(a[0], rhs[1]), FMul(a[1], rhs[0]))>>))
    ELSE Ok(VectorDefault(COUNT(a)))

\* A cross of the other hand: each component with its two products swapped
cross_left_handed(a, rhs) ==
    IF COUNT(a) = 3
    THEN Ok(Array(<<FSub(FMul(a[2], rhs[1]), FMul(a[1], rhs[2])),
                    FSub(FMul(a[0], rhs[2]), FMul(a[2], rhs[0])),
                    FSub(FMul(a[1], rhs[0]), FMul(a[0], rhs[1]))>>))
    ELSE [tag |-> "panic",
          msg |-> "Cross products are only supported for 3 dimensional vectors!",
          components |-> COUNT(a)]

\* Vector::cross: the 3-dimensional product, and a panic naming COUNT for
\* every other size
cross(a, rhs) ==
    IF COUNT(a) = 3
    THEN Ok(Array(<<FSub(FMul(a[1], rhs[2]), FMul(a[2], rhs[1])),
                    FSub(FMul(a[2], rhs[0]), FMul(a[0], rhs[2])),
                    FSub(FMul(a[0], rhs[1]), FMul(a[1], rhs[0]))>>))
    ELSE [tag |-> "panic",
          msg |-> "Cross products are only supported for 3 dimensional vectors!",
          components |-> COUNT(a)]

\* Vector::magnitude
magnitude(v) == sqrt_delegate(dot(v, v))

\* Vector::normalize
normalize(v) == VDivS(v, magnitude(v))

\* Vector3::new, Vector4::new (f32)
Vector3_new(x, y, z) == from_array(Array(<<x, y, z>>))

Vector4_new(x, y, z, w) == from_array(Array(<<x, y, z, w>>))

\* Vector2::new (f32)
Vector2_new(x, y) == from_array(Array(<<x, y>>))

\* HiVector2::new, HiVector3::new, HiVector4::new (f64)
HiVector2_new(x, y) == from_array(Array(<<x, y>>))

HiVector3_new(x, y, z) == from_array(Array(<<x, y, z>>))

HiVector4_new(x, y, z, w) == from_array(Array(<<x, y, w, z>>))

\* A conversion loop that runs over every cell of the target
MinOfTarget(a, b) == a

\* std::cmp::min
Min(a, b) == IF a <= b THEN a ELSE b

\* vector_from_vector!: the loop for c in c .. stop { o[c] = rhs[c] }
RECURSIVE VectorFromLoop(_, _, _, _)
VectorFromLoop(o, src, c, stop) ==
    IF c >= stop THEN Ok(o)
    ELSE IF c \notin DOMAIN o \/ c \notin DOMAIN src
         THEN Panic("index out of bounds")
         ELSE VectorFromLoop([o EXCEPT ![c] = src[c]], src, c + 1, stop)

\* vector_from_vector!: From<Vector<t, from_count>> for Vector<t, into_count>;
\* the impls exist for the pairs of different sizes of 2, 3, 4
vector_from(src, into_count) ==
    IF into_count \in {2, 3, 4} /\ COUNT(src) \in {2, 3, 4} /\ into_count # COUNT(src)
    THEN VectorFromLoop(VectorDefault(into_count), src, 0, Min(into_count, COUNT(src)))
    ELSE [tag |-> "rejected"]

\* ------------------------------------------------------------------------
\* Ray3D (ray.rs)
\* ------------------------------------------------------------------------

\* const EPSILON : f32 = 0.0000001f32
EPSILON == Rat(1, 10000000)

\* Ray3D::new
Ray3D_new(o, d) == [origin |-> o, direction |-> d]

\* A first rejection that takes only a = 0 for parallel
IsParallelExact(a) == FEq(a, Zero)

\* intersect_triangle's first rejection: a within EPSILON of zero (the ray
\* is parallel to the triangle's plane)
IsParallel(a) == FGt(a, FNeg(EPSILON)) /\ FLt(a, EPSILON)

\* A second rejection that lets a negative u through
OutsideUAbove(u) == FGt(u, get_one)

\* intersect_triangle's second rejection: u outside [0, 1]
OutsideU(u) == FLt(u, Zero) \/ FGt(u, get_one)

\* intersect_triangle's third rejection: v below 0 or u + v above 1
OutsideV(u, v) == FLt(v, Zero) \/ FGt(FAdd(u, v), get_one)

\* intersect_triangle's acceptance: the hit lies in front of the origin
InFront(tt) == FGt(tt, EPSILON)

\* An intersection that measures s from the world origin, not from p1
intersect_triangle_unanchored(ray, p1, p2, p3) ==
    LET e1 == VSub(p2, p1)
        e2 == VSub(p3, p1)
        h  == cross(ray.direction, e2).val
        a  == dot(e1, h)
        f  == FDiv(get_one, a)
        s  == ray.origin
        u  == FMul(f, dot(s, h))
        q  == cross(s, e1).val
        v  == FMul(f, dot(ray.direction, q))
        tt == FMul(f, dot(e2, q))
    IN  IF IsParallel(a) THEN None
        ELSE IF OutsideU(u) THEN None
        ELSE IF OutsideV(u, v) THEN None
        ELSE IF InFront(tt) THEN Some(<<u, v, tt>>)
        ELSE None

\* Ray3D::intersect_triangle (Moeller-Trumbore)
intersect_triangle(ray, p1, p2, p3) ==
    LET e1 == VSub(p2, p1)
        e2 == VSub(p3, p1)
        h  == cross(ray.direction, e2).val
        a  == dot(e1, h)
        f  == FDiv(get_one, a)
        s  == VSub(ray.origin, p1)
        u  == FMul(f, dot(s, h))
        q  == cross(s, e1).val
        v  == FMul(f, dot(ray.direction, q))
        tt == FMul(f, dot(e2, q))
    IN  IF IsParallel(a) THEN None
        ELSE IF OutsideU(u) THEN None
        ELSE IF OutsideV(u, v) THEN None
        ELSE IF InFront(tt) THEN Some(<<u, v, tt>>)
        ELSE None

\* ------------------------------------------------------------------------
\* Matrix<T, WIDTH, HEIGHT> (matrix.rs): the data array [[T; WIDTH]; HEIGHT],
\* HEIGHT rows of WIDTH cells, a cell addressed as m[row][column]
\* ------------------------------------------------------------------------

HEIGHT(m) == COUNT(m)

WIDTH(m) == COUNT(m[0])

\* Matrix::default
MatrixDefault(W, H) == [y \in 0 .. H - 1 |-> [x \in 0 .. W - 1 |-> Zero]]

\* Matrix::from_array
Matrix_from_array(array) == array

\* The bounds check of m[i][j]
InBounds(m, row, col) == row \in DOMAIN m /\ col \in DOMAIN m[row]

\* A loop that stopped at an out-of-range index, with the array as it was
LoopPanic(store) == [tag |-> "panic", val |-> store]

\* What the type checker refuses: no impl applies to the operands
Rejected == [tag |-> "rejected"]

\* Matrix::identity: ones on the diagonal, up to the shorter side
RECURSIVE IdentityLoop(_, _, _, _)
IdentityLoop(array, c, W, H) ==
    IF c >= W \/ c >= H THEN array
    ELSE IdentityLoop([array EXCEPT ![c][c] = get_one], c + 1, W, H)

\* A matrix of one in every cell
identity_ones(W, H) == [y \in 0 .. H - 1 |-> [x \in 0 .. W - 1 |-> get_one]]

identity(W, H) == IdentityLoop(MatrixDefault(W, H), 0, W, H)

\* Matrix::transpose: for y in 0 .. WIDTH, for x in 0 .. HEIGHT,
\* m[x][y] = self[y][x], where m is a Matrix<T, HEIGHT, WIDTH>
RECURSIVE TransposeLoop(_, _, _, _)
TransposeLoop(m, array, y, x) ==
    IF y >= WIDTH(m) THEN Ok(array)
    ELSE IF x >= HEIGHT(m) THEN TransposeLoop(m, array, y + 1, 0)
    ELSE IF ~InBounds(m, y, x) \/ ~InBounds(array, x, y) THEN LoopPanic(array)
    ELSE TransposeLoop(m, [array EXCEPT ![x][y] = m[y][x]], y, x + 1)

transpose(m) == TransposeLoop(m, MatrixDefault(HEIGHT(m), WIDTH(m)), 0, 0)

\* The compound assignment $call of the component macros
Apply(call, a, b) ==
    CASE call = "+=" -> FAdd(a, b)
      [] call = "-=" -> FSub(a, b)
      [] call = "*=" -> FMul(a, b)
      [] call = "/=" -> FDiv(a, b)

\* The loop of component_op! and component_op_assign!: for y in 0 .. HEIGHT,
\* for x in 0 .. WIDTH, prod[x][y] $call rhs
RECURSIVE ComponentLoop(_, _, _, _, _)
ComponentLoop(prod, call, s, y, x) ==
    IF y >= HEIGHT(prod) THEN Ok(prod)
    ELSE IF x >= WIDTH(prod) THEN ComponentLoop(prod, call, s, y + 1, 0)
    ELSE IF ~InBounds(prod, x, y) THEN LoopPanic(prod)
    ELSE ComponentLoop([prod EXCEPT ![x][y] = Apply(call, @, s)], call, s, y, x + 1)

\* component_op! (Add, Sub, Mul, Div of a matrix and a scalar, by value)
component_op(m, call, s) == ComponentLoop(m, call, s, 0, 0)

\* component_op_assign! (AddAssign, SubAssign, MulAssign, DivAssign, in place)
component_op_assign(m, call, s) == ComponentLoop(m, call, s, 0, 0)

\* Matrix * Matrix, the inner loop: for y2 in 0 .. HEIGHT, c[y2] = rhs[y2][x]
RECURSIVE ColumnLoop(_, _, _, _)
ColumnLoop(c, b, x, y2) ==
    IF y2 >= HEIGHT(b) THEN Ok(c)
    ELSE IF y2 \notin DOMAIN c THEN LoopPanic(c)
    ELSE ColumnLoop([c EXCEPT ![y2] = b[y2][x]], b, x, y2 + 1)

\* Matrix * Matrix, the outer loops: m[y][x] = (r * c).sum()
RECURSIVE MulLoop(_, _, _, _, _)
MulLoop(a, b, m, y, x) ==
    IF y >= HEIGHT(a) THEN Ok(m)
    ELSE IF x >= WIDTH(a) THEN MulLoop(a, b, m, y + 1, 0)
    ELSE LET row == from_array(a[y])
             c == ColumnLoop(VectorDefault(WIDTH(a)), b, x, 0)
         IN  IF c.tag = "panic" THEN LoopPanic(m)
             ELSE MulLoop(a, b, [m EXCEPT ![y][x] = sum(VMul(row, c.val))], y, x + 1)

\* impl Mul<Self> for Matrix<T, WIDTH, HEIGHT>: the right operand has the
\* type of the left one; operands of two shapes have no impl
SameShape(a, b) == WIDTH(a) = WIDTH(b) /\ HEIGHT(a) = HEIGHT(b)

matrix_mul(a, b) ==
    IF ~SameShape(a, b) THEN Rejected
    ELSE MulLoop(a, b, MatrixDefault(WIDTH(a), HEIGHT(a)), 0, 0)

\* A 2x2 determinant that adds the two products
determinant2Sum(m) == FAdd(FMul(m[0][0], m[1][1]), FMul(m[0][1], m[1][0]))

\* Matrix<T, 2, 2>::determinant
determinant2(m) == FSub(FMul(m[0][0], m[1][1]), FMul(m[0][1], m[1][0]))

\* Matrix<T, 2, 2>::inverse
inverse2(m) ==
    LET d == FDiv(get_one, determinant2(m))
        inv == [MatrixDefault(2, 2) EXCEPT ![0][0] = m[1][1],
                                           ![0][1] = FNeg(m[0][1]),
                                           ![1][0] = FNeg(m[1][0]),
                                           ![1][1] = m[0][0]]
    IN  component_op(inv, "*=", d)

\* The 2x2 minor  a*b - c*d  that the 3x3 and 4x4 formulas are built from
Minor(a, b, c, d) == FSub(FMul(a, b), FMul(c, d))

\* Matrix<T, 3, 3>::determinant
determinant3(m) ==
    FAdd(FSub(FMul(m[0][0], Minor(m[1][1], m[2][2], m[2][1], m[1][2])),
              FMul(m[1][0], Minor(m[0][1], m[2][2], m[2][1], m[0][2]))),
         FMul(m[2][0], Minor(m[0][1], m[1][2], m[1][1], m[0][2])))

\* Matrix<T, 3, 3>::inverse
inverse3(m) ==
    LET d == FDiv(get_one, determinant3(m))
    IN  Ok([MatrixDefault(3, 3) EXCEPT
            ![0][0] = FMul(Minor(m[1][1], m[2][2], m[2][1], m[1][2]), d),
            ![1][0] = FMul(FNeg(Minor(m[1][0], m[2][2], m[2][0], m[1][2])), d),
            ![2][0] = FMul(Minor(m[1][0], m[2][1], m[2][0], m[1][1]), d),
            ![0][1] = FMul(FNeg(Minor(m[0][1], m[2][2], m[2][1], m[0][2])), d),
            ![1][1] = FMul(Minor(m[0][0], m[2][2], m[2][0], m[0][2]), d),
            ![2][1] = FMul(FNeg(Minor(m[0][0], m[2][1], m[2][0], m[0][1])), d),
            ![0][2] = FMul(Minor(m[0][1], m[1][2], m[1][1], m[0][2]), d),
            ![1][2] = FMul(FNeg(Minor(m[0][0], m[1][2], m[1][0], m[0][2])), d),
            ![2][2] = FMul(Minor(m[0][0], m[1][1], m[1][0], m[0][1]), d)])

\* Matrix<T, 4, 4>::from_vectors
from_vectors(r0, r1, r2, r3) == Array(<<r0, r1, r2, r3>>)

\* Matrix<T, 4, 4>::inverse
inverse4(m) ==
    LET coef00 == Minor(m[2][2], m[3][3], m[3][2], m[2][3])
        coef02 == Minor(m[1][2], m[3][3], m[3][2], m[1][3])
        coef03 == Minor(m[1][2], m[2][3], m[2][2], m[1][3])
        coef04 == Minor(m[2][1], m[3][3], m[3][1], m[2][3])
        coef06 == Minor(m[1][1], m[3][3], m[3][1], m[1][3])
        coef07 == Minor(m[1][1], m[2][3], m[2][1], m[1][3])
        coef08 == Minor(m[2][1], m[3][2], m[3][1], m[2][2])
        coef10 == Minor(m[1][1], m[3][2], m[3][1], m[1][2])
        coef11 == Minor(m[1][1], m[2][2], m[2][1], m[1][2])
        coef12 == Minor(m[2][0], m[3][3], m[3][0], m[2][3])
        coef14 == Minor(m[1][0], m[3][3], m[3][0], m[1][3])
        coef15 == Minor(m[1][0], m[2][3], m[2][0], m[1][3])
        coef16 == Minor(m[2][0], m[3][2], m[3][0], m[2][2])
        coef18 == Minor(m[1][0], m[3][2], m[3][0], m[1][2])
        coef19 == Minor(m[1][0], m[2][2], m[2][0], m[1][2])
        coef20 == Minor(m[2][0], m[3][1], m[3][0], m[2][1])
        coef22 == Minor(m[1][0], m[3][1], m[3][0], m[1][1])
        coef23 == Minor(m[1][0], m[2][1], m[2][0], m[1][1])
        fac0 == Vector4_new(coef00, coef00, coef02, coef03)
        fac1 == Vector4_new(coef04, coef04, coef06, coef07)
        fac2 == Vector4_new(coef08, coef08, coef10, coef11)
        fac3 == Vector4_new(coef12, coef12, coef14, coef15)
        fac4 == Vector4_new(coef16, coef16, coef18, coef19)
        fac5 == Vector4_new(coef20, coef20, coef22, coef23)
        vec0 == Vector4_new(m[1][0], m[0][0], m[0][0], m[0][0])
        vec1 == Vector4_new(m[1][1], m[0][1], m[0][1], m[0][1])
        vec2 == Vector4_new(m[1][2], m[0][2], m[0][2], m[0][2])
        vec3 == Vector4_new(m[1][3], m[0][3], m[0][3], m[0][3])
        inv0 == VAdd(VSub(VMul(vec1, fac0), VMul(vec2, fac1)), VMul(vec3, fac2))
        inv1 == VAdd(VSub(VMul(vec0, fac0), VMul(vec2, fac3)), VMul(vec3, fac4))
        inv2 == VAdd(VSub(VMul(vec0, fac1), VMul(vec1, fac3)), VMul(vec3, fac5))
        inv3 == VAdd(VSub(VMul(vec0, fac2), VMul(vec1, fac4)), VMul(vec2, fac5))
        one == get_one
        sign_a == Vector4_new(one, FNeg(one), one, FNeg(one))
        sign_b == VNeg(sign_a)
        inv == from_vectors(VMul(inv0, sign_a), VMul(inv1, sign_b),
                            VMul(inv2, sign_a), VMul(inv3, sign_b))
        r0 == Vector4_new(inv[0][0], inv[1][0], inv[2][0], inv[3][0])
        dot0 == VMul(from_array(m[0]), r0)
        dot1 == FAdd(FAdd(dot0[0], dot0[1]), FAdd(dot0[2], dot0[3]))
        d == FDiv(one, dot1)
    IN  component_op(inv, "*=", d)

\* TanDelegate::tan_delegate (f32::tan), by the first three terms of its
\* series: x + x^3 / 3 + 2 x^5 / 15
tan_delegate(x) ==
    LET x2 == FMul(x, x)
        x3 == FMul(x2, x)
        x5 == FMul(x3, x2)
    IN  FAdd(FAdd(x, FDiv(x3, Int2F(3))), FDiv(FMul(Int2F(2), x5), Int2F(15)))

\* Matrix<T, 4, 4>::perspective
perspective(fov_y, aspect, z_near, z_far) ==
    LET one == get_one
        two == FAdd(one, one)
        half_fov == FDiv(fov_y, two)
    IN  [MatrixDefault(4, 4) EXCEPT
            ![0][0] = FDiv(one, FMul(aspect, half_fov)),
            ![1][1] = FDiv(one, half_fov),
            ![2][2] = FDiv(FNeg(FAdd(z_far, z_near)), FSub(z_far, z_near)),
            ![2][3] = FNeg(one),
            ![3][2] = FDiv(FNeg(FMul(FMul(two, z_far), z_near)), FSub(z_far, z_near))]

\* Matrix<T, 4, 4>::translate
translate(translation) ==
    [identity(4, 4) EXCEPT
        ![2] = Array(<<translation[0], translation[1], translation[2], get_one>>)]

\* The sum  a0*b0 + a1*b1 + a2*b2 + a3*b3, added left to right
Sum4(a0, b0, a1, b1, a2, b2, a3, b3) ==
    FAdd(FAdd(FAdd(FMul(a0, b0), FMul(a1, b1)), FMul(a2, b2)), FMul(a3, b3))

\* impl Mul<Vector<T, 4>> for Matrix<T, 4, 4>
matrix_mul_vector(m, v) ==
    Vector4_new(
        Sum4(v[0], m[0][0], v[1], m[0][1], v[2], m[0][2], v[3], m[0][3]),
        Sum4(v[0], m[1][0], v[1], m[1][1], v[2], m[1][2], v[3], m[1][3]),
        Sum4(v[0], m[2][0], v[1], m[2][1], v[2], m[2][2], v[3], m[2][3]),
        Sum4(v[0], m[3][0], v[1], m[3][1], v[2], m[3][2], v[3], m[3][3]))

\* impl Mul<Matrix<T, 4, 4>> for Vector<T, 4>
vector_mul_matrix(v, m) ==
    Vector4_new(
        Sum4(v[0], m[0][0], v[1], m[0][1], v[2], m[0][2], v[3], m[0][3]),
        Sum4(v[0], m[1][0], v[1], m[1][1], v[2], m[1][2], v[3], m[1][3]),
        Sum4(v[0], m[2][0], v[1], m[2][1], v[2], m[2][2], v[3], m[2][3]),
        Sum4(v[0], m[3][0], v[1], m[3][1], v[2], m[3][2], v[3], m[3][3]))

\* ------------------------------------------------------------------------
\* The signed-distance scene and its normal (main.rs)
\* ------------------------------------------------------------------------

\* Vector3::from_array([x, y, z])
P3(x, y, z) == from_array(Array(<<x, y, z>>))

\* A sphere distance that subtracts the diameter
sphere_sdf_diameter(s, radius) == FSub(magnitude(s), FAdd(radius, radius))

\* sphere_sdf
sphere_sdf(s, radius) == FSub(magnitude(s), radius)

\* donut_sdf
donut_sdf(s, r1, r2) ==
    LET y  == P3(s[0], Zero, s[2])
        q1 == FSub(magnitude(y), r1)
        q2 == s[1]
    IN  FSub(magnitude(P3(q1, q2, Zero)), r2)

\* A scene is the distance function in force.  The source's scene_sdf is the
\* donut; the sphere is the alternative it keeps in a comment.  A "table"
\* scene is a function that is no signed distance: it is constant on slabs
\* of the z axis, CellWidth deep, the first and the last slab unbounded.
NCells == 3

CellWidth == Rat(5, 2)

CellOf(s) ==
    LET q == FDiv(s[2], CellWidth)
        k == q[1] \div q[2]
    IN  IF k < 0 THEN 0 ELSE IF k > NCells - 1 THEN NCells - 1 ELSE k

\* scene_sdf
scene_sdf(sc, s) ==
    CASE sc.kind = "donut"  -> donut_sdf(P3(s[0], s[2], s[1]), Rat(1, 2), Rat(1, 10))
      [] sc.kind = "sphere" -> sphere_sdf(s, sc.radius)
      [] sc.kind = "table"  -> sc.cells[CellOf(s)]

\* normal_sdf: the four points at which it evaluates the scene
NormalSamplePoints(s) ==
    LET e  == from_single(Rat(1, 100), 3)
        X  == get_one
        Y  == FNeg(get_one)
        k1 == P3(X, Y, Y)
        k2 == P3(Y, Y, X)
        k3 == P3(Y, X, Y)
        k4 == P3(X, X, X)
    IN  <<VAdd(k1, VMul(s, e)), VAdd(k2, VMul(s, e)),
          VAdd(k3, VMul(s, e)), VAdd(k4, VMul(s, e))>>

\* normal_sdf's four offset directions k1 .. k4
TetraOffsets ==
    <<P3(get_one, FNeg(get_one), FNeg(get_one)),
      P3(FNeg(get_one), FNeg(get_one), get_one),
      P3(FNeg(get_one), get_one, FNeg(get_one)),
      P3(get_one, get_one, get_one)>>

\* normal_sdf
normal_sdf(sc, s) ==
    LET k  == TetraOffsets
        at == NormalSamplePoints(s)
    IN  VAdd(VAdd(VAdd(VMulS(k[1], scene_sdf(sc, at[1])),
                       VMulS(k[2], scene_sdf(sc, at[2]))),
                  VMulS(k[3], scene_sdf(sc, at[3]))),
             VMulS(k[4], scene_sdf(sc, at[4])))

\* ------------------------------------------------------------------------
\* The march loop of main (main.rs)
\* ------------------------------------------------------------------------

\* const RT_WIDTH, RT_HEIGHT
RT_WIDTH == 80

RT_HEIGHT == 40

\* The camera offset of a frame, from the cosine and sine of its time
CameraOffset(cos, sin) ==
    LET offset == VMulS(P3(cos, Zero, Zero), Rat(1, 2))
    IN  [offset EXCEPT ![2] = FSub(@, FAdd(FAbs(sin), Rat(3, 20)))]

\* The ray direction through pixel (x, y)
PixelDirection(x, y) ==
    LET v == Rat(y, RT_HEIGHT)
        persp_y == FNeg(FMul(FSub(v, Rat(1, 2)), Int2F(2)))
        u == Rat(x, RT_WIDTH)
        persp_x == FMul(FSub(u, Rat(1, 2)), Int2F(2))
    IN  normalize(P3(persp_x, persp_y, get_one))

\* while t < 10.0
InBudget(tt) == FLt(tt, Int2F(10))

\* let s = origin + direction * t
SamplePoint(o, d, tt) == VAdd(o, VMulS(d, tt))

\* A hit test that also takes a distance of exactly 0.001 for a hit
IsHitInclusive(d) == FLe(d, Rat(1, 1000))

\* if r < 0.001f32
IsHit(d) == FLt(d, Rat(1, 1000))

\* A step that assigns the distance instead of adding it
AdvanceAssign(tt, d) == d

\* t += r
Advance(tt, d) == FAdd(tt, d)

\* f32::max: the other operand when one is NaN
FMax(a, b) ==
    IF ~IsFinite(a) THEN b ELSE IF ~IsFinite(b) THEN a ELSE IF FLt(a, b) THEN b ELSE a

\* The shade of a hit at s: max(0, n . v) with v the normalized view vector
Shade(nn, s, o) == FMax(dot(nn, normalize(VSub(s, o))), Zero)

\* ------------------------------------------------------------------------
\* State
\* ------------------------------------------------------------------------

VARIABLES
    fn,         \* the library function last entered ("none" in main)
    self,       \* its receiver (a ray, a matrix)
    rhs,        \* its argument
    ret,        \* its outcome; NotCalled until it returns
    pc,         \* main: "while", "body", "print" ("idle" outside main)
    scene,      \* main: the scene function
    origin,     \* main: the ray origin of the pixel
    direction,  \* main: the ray direction of the pixel
    t,          \* main: the distance travelled
    r,          \* main: the last scene distance sampled, None before the first
    intersect,  \* main: whether a hit was found
    n,          \* main: the normal at the hit, None without one
    i,          \* main: the shade of the pixel
    samples,    \* the points normal_sdf evaluated the scene at
    sampled     \* the distances the march loop has sampled so far

libVars == <<fn, self, rhs, ret>>

mainVars == <<pc, scene, origin, direction, t, r, intersect, n, i, samples, sampled>>

vars == <<fn, self, rhs, ret, pc, scene, origin, direction, t, r, intersect, n, i,
          samples, sampled>>

NotCalled == [tag |-> "not called"]

Nothing == [tag |-> "nothing"]

\* No library call is under way (main runs)
LibIdle == fn = "none" /\ self = Nothing /\ rhs = Nothing /\ ret = NotCalled

\* main is not running (a library function is exercised on its own)
MainIdle ==
    /\ pc = "idle" /\ scene = Nothing /\ origin = Nothing /\ direction = Nothing
    /\ t = Zero /\ r = None /\ intersect = FALSE /\ n = None /\ i = Zero
    /\ samples = <<>> /\ sampled = {}

\* ------------------------------------------------------------------------
\* main: one pixel of one frame
\* ------------------------------------------------------------------------

\* Cosine and sine of the frame times modelled
Times == {<<get_one, Zero>>, <<Zero, get_one>>, <<Rat(3, 5), Rat(4, 5)>>}

\* The pixels modelled: the centre, and one to the right and one below it
\* whose directions normalize exactly
CentrePixel == <<40, 20>>

Pixels == {CentrePixel, <<70, 20>>, <<40, 35>>}

\* The distances a table scene takes
TableDistances == {Rat(-1, 2), Rat(1, 2000), Rat(1, 2), Int2F(3), Int2F(12)}

Scenes ==
    {[kind |-> "donut"]}
    \cup {[kind |-> "sphere", radius |-> rad] : rad \in {Rat(1, 2), Rat(1, 10)}}
    \cup {[kind |-> "table", cells |-> c] : c \in [0 .. NCells - 1 -> TableDistances]}
    \cup {[kind |-> "table", cells |-> [c \in 0 .. NCells - 1 |-> Rat(1, 1000)]]}

Init ==
    /\ LibIdle
    /\ pc = "while"
    /\ scene \in Scenes
    /\ \E tm \in Times : origin = CameraOffset(tm[1], tm[2])
    \* The donut and the sphere are marched through the centre pixel only:
    \* off the axis their exact distances outgrow the integers of the checker.
    /\ \E px \in Pixels :
          /\ scene.kind = "table" \/ px = CentrePixel
          /\ direction = PixelDirection(px[1], px[2])
    /\ t = Zero
    /\ r = None
    /\ intersect = FALSE
    /\ n = None
    /\ i = Zero
    /\ samples = <<>>
    /\ sampled = {}

\* while t < 10.0
LoopTest ==
    /\ pc = "while"
    /\ pc' = IF InBudget(t) THEN "body" ELSE "print"
    /\ UNCHANGED <<scene, origin, direction, t, r, intersect, n, i, samples, sampled>>
    /\ UNCHANGED libVars

\* The loop body: sample the scene; on a hit shade the pixel and break,
\* otherwise step by the distance sampled
LoopBody ==
    /\ pc = "body"
    /\ LET s == SamplePoint(origin, direction, t)
           d == scene_sdf(scene, s)
       IN  /\ r' = Some(d)
           /\ sampled' = sampled \cup {d}
           /\ IF IsHit(d)
              THEN LET nn == normalize(normal_sdf(scene, s))
                   IN  /\ n' = Some(nn)
                       /\ samples' = NormalSamplePoints(s)
                       /\ i' = Shade(nn, s, origin)
                       /\ intersect' = TRUE
                       /\ pc' = "print"
                       /\ t' = t
              ELSE /\ t' = Advance(t, d)
                   /\ pc' = "while"
                   /\ UNCHANGED <<n, samples, i, intersect>>
    /\ UNCHANGED <<scene, origin, direction>>
    /\ UNCHANGED libVars

Next == LoopTest \/ LoopBody

Spec == Init /\ [][Next]_vars

\* The loop body runs to its end: it leaves by the break or by the step
LeaveBody == pc = "body" /\ pc' \in {"while", "print"}

\* main does not stop between two steps of the loop, nor inside its body
FairSpec == Spec /\ WF_pc(LoopTest) /\ WF_pc(LeaveBody)

\* ------------------------------------------------------------------------
\* Claims about the march loop
\* ------------------------------------------------------------------------

\* C2: a hit is reported only where the scene distance at
\* origin + direction * t is below 0.001 and t < 10.0; a miss is reported
\* only where t has reached 10.0 and no sample taken was below 0.001.
C2_ReportsMatchLoopExits ==
    pc = "print" =>
        IF intersect
        THEN /\ r.some
             /\ r.val = scene_sdf(scene, VAdd(origin, VMulS(direction, t)))
             /\ FLt(r.val, Rat(1, 1000))
             /\ FLt(t, Int2F(10))
        ELSE /\ FGe(t, Int2F(10))
             /\ \A d \in sampled : ~FLt(d, Rat(1, 1000))

\* A hit reported after the ray has travelled
C2_Witness == pc = "print" /\ intersect /\ FGt(t, Zero) /\ Cardinality(sampled) >= 2

\* C3: the march loop terminates, whatever the scene function is.
C3_MarchTerminates == <>(pc = "print")

\* The loop has left by its travel budget on a scene that is no signed
\* distance, after more than one step
C3_Witness ==
    /\ pc = "print" /\ ~intersect /\ scene.kind = "table"
    /\ Cardinality(sampled) >= 2

\* ------------------------------------------------------------------------
\* Ray3D against a triangle
\* ------------------------------------------------------------------------

\* Ray and triangle coordinates are multiples of 1/2 up to MaxCoord / 2.
MaxCoord == 2

Coords == {Rat(k, 2) : k \in -MaxCoord .. MaxCoord}

Origins == {P3(x, y, z) : x \in Coords, y \in Coords, z \in Coords}

Units == {Int2F(-1), Zero, get_one}

Directions == {P3(x, y, z) : x \in Units, y \in Units, z \in Units}

\* The triangle of the commented-out RT main (main.rs, lines 142-144), the
\* same with its winding reversed, a collinear one, a tilted one, one that
\* spans the whole grid in the plane z = 1/2, and one so small that a is
\* within EPSILON of zero for every direction.
Triangles ==
    { <<P3(Rat(-1, 2), Rat(-1, 2), Zero), P3(Rat(1, 2), Rat(-1, 2), Zero), P3(Zero, Rat(1, 2), Zero)>>,
      <<P3(Rat(-1, 2), Rat(-1, 2), Zero), P3(Zero, Rat(1, 2), Zero), P3(Rat(1, 2), Rat(-1, 2), Zero)>>,
      <<P3(Zero, Zero, Zero), P3(get_one, Zero, Zero), P3(Int2F(2), Zero, Zero)>>,
      <<P3(Zero, Zero, Zero), P3(get_one, Zero, get_one), P3(Zero, get_one, get_one)>>,
      <<P3(Int2F(-2), Int2F(-2), Rat(1, 2)), P3(Int2F(2), Int2F(-2), Rat(1, 2)), P3(Zero, Int2F(2), Rat(1, 2))>>,
      <<P3(Zero, Zero, Zero), P3(Rat(1, 10000), Zero, Zero), P3(Zero, Rat(1, 10000), Zero)>> }

InitRay ==
    /\ MainIdle
    /\ fn = "Ray3D::new"
    /\ \E o \in Origins, d \in Directions : self = Ray3D_new(o, d)
    /\ rhs \in Triangles
    /\ ret = NotCalled

IntersectTriangle ==
    /\ fn = "Ray3D::new"
    /\ fn' = "intersect_triangle"
    /\ ret' = intersect_triangle(self, rhs[1], rhs[2], rhs[3])
    /\ UNCHANGED <<self, rhs>>
    /\ UNCHANGED mainVars

\* The offsets by which a ray and a triangle are moved together
Offsets == {P3(Int2F(10), Int2F(10), Zero), P3(Int2F(2 ^ F32_MANTISSA_DIGITS), Int2F(2 ^ F32_MANTISSA_DIGITS), Zero)}

\* The offsets a triangle is moved by: the far one is kept to the triangles
\* on the half-integer grid, whose moved coordinates stay within the
\* integers of the model
OffsetsOf(tri) ==
    {d \in Offsets :
        \/ \A c \in DOMAIN d : FLe(FAbs(d[c]), Int2F(10))
        \/ \A k \in 1 .. 3 : \A c \in DOMAIN tri[k] : tri[k][c][2] <= 2}

\* The same call on the ray and the triangle moved by one offset
IntersectTranslated ==
    /\ fn = "Ray3D::new"
    /\ fn' = "intersect_triangle"
    /\ \E d \in OffsetsOf(rhs) :
          /\ self' = Ray3D_new(VAdd(self.origin, d), self.direction)
          /\ rhs' = <<VAdd(rhs[1], d), VAdd(rhs[2], d), VAdd(rhs[3], d)>>
          /\ ret' = intersect_triangle(Ray3D_new(VAdd(self.origin, d), self.direction),
                                       VAdd(rhs[1], d), VAdd(rhs[2], d), VAdd(rhs[3], d))
    /\ UNCHANGED mainVars

NextRay == IntersectTriangle \/ IntersectTranslated

SpecRay == InitRay /\ [][NextRay]_vars

\* C1: whenever intersect_triangle returns a present result (u, v, t), it has
\* 0 <= u <= 1, v >= 0, u + v <= 1 and t > EPSILON; otherwise the result is
\* absent.
C1_HitWithinTriangle ==
    fn = "intersect_triangle" =>
        \/ ret = None
        \/ /\ ret.some
           /\ LET u  == ret.val[1]
                  v  == ret.val[2]
                  tt == ret.val[3]
              IN  /\ FLe(Zero, u) /\ FLe(u, get_one)
                  /\ FGe(v, Zero)
                  /\ FLe(FAdd(u, v), get_one)
                  /\ FGt(tt, EPSILON)

\* A hit strictly inside the triangle
C1_Witness ==
    /\ fn = "intersect_triangle"
    /\ ret.some
    /\ FGt(ret.val[1], Zero)
    /\ FGt(ret.val[2], Zero)

\* ------------------------------------------------------------------------
\* Matrix: construction, then one operation
\* ------------------------------------------------------------------------

\* Matrices have 1 .. MaxDim rows and 1 .. MaxDim columns.
MaxDim == 4

\* A cell is assigned an integer of -MaxVal .. MaxVal.
MaxVal == 2

Dims == 1 .. MaxDim

Values == {Int2F(k) : k \in -MaxVal .. MaxVal}

Scalars == {Int2F(2), Rat(1, 2)}

Calls == {"+=", "-=", "*=", "/="}

RECURSIVE Pow(_, _)
Pow(b, e) == IF e = 0 THEN 1 ELSE b * Pow(b, e - 1)

\* An array literal with no two cells of a row alike and, when square, a
\* determinant that is not zero: cell [y][x] is (y + 1) ^ x
Dense(W, H) == [y \in 0 .. H - 1 |-> [x \in 0 .. W - 1 |-> Int2F(Pow(y + 1, x))]]

Constructors == {"Matrix::default", "Matrix::identity", "Matrix::from_array"}

Construct(ctor, W, H) ==
    CASE ctor = "Matrix::default" -> MatrixDefault(W, H)
      [] ctor = "Matrix::identity" -> identity(W, H)
      [] ctor = "Matrix::from_array" -> Matrix_from_array(Dense(W, H))

\* The right operands of Matrix * Matrix
Operands == {Construct(ctor, W, H) :
                ctor \in {"Matrix::identity", "Matrix::from_array"},
                W \in Dims, H \in Dims}

Vectors4 == {Vector4_new(x, y, z, w) : x \in Units, y \in Units, z \in Units, w \in Units}

FovYs == {get_one, Rat(1, 2), Int2F(2)}

Aspects == {get_one, Int2F(2), Rat(1, 2)}

ZNears == {Rat(1, 10), get_one}

ZFars == {Int2F(10), Int2F(100)}

InitMatrix ==
    /\ MainIdle
    /\ fn \in Constructors
    /\ \E W \in Dims, H \in Dims : self = Construct(fn, W, H)
    /\ rhs = Nothing
    /\ ret = NotCalled

\* The matrix is built and no operation has been applied to it
Built == fn \in Constructors \cup {"deref_mut"}

\* DerefMut: m[y][x] = v
IndexMut ==
    /\ fn \in Constructors
    /\ \E y \in DOMAIN self :
          \E x \in DOMAIN self[y], v \in Values :
              self' = [self EXCEPT ![y][x] = v]
    /\ fn' = "deref_mut"
    /\ UNCHANGED <<rhs, ret>>
    /\ UNCHANGED mainVars

Transpose ==
    /\ Built
    /\ fn' = "transpose"
    /\ ret' = transpose(self)
    /\ UNCHANGED <<self, rhs>>
    /\ UNCHANGED mainVars

\* m + s, m - s, m * s, m / s
ComponentOp ==
    /\ Built
    /\ \E call \in Calls, s \in Scalars :
          /\ rhs' = [call |-> call, scalar |-> s]
          /\ ret' = component_op(self, call, s)
    /\ fn' = "component_op"
    /\ UNCHANGED self
    /\ UNCHANGED mainVars

\* m += s, m -= s, m *= s, m /= s
ComponentOpAssign ==
    /\ Built
    /\ \E call \in Calls, s \in Scalars :
          /\ rhs' = [call |-> call, scalar |-> s]
          /\ ret' = component_op_assign(self, call, s)
          /\ self' = component_op_assign(self, call, s).val
    /\ fn' = "component_op_assign"
    /\ UNCHANGED mainVars

\* m * b
MatrixMul ==
    /\ Built
    /\ \E b \in Operands :
          /\ rhs' = b
          /\ ret' = matrix_mul(self, b)
    /\ fn' = "matrix_mul"
    /\ UNCHANGED self
    /\ UNCHANGED mainVars

\* m.inverse(), which Matrix2x2, Matrix3x3 and Matrix4x4 have
Inverse ==
    /\ Built
    /\ WIDTH(self) = HEIGHT(self)
    /\ WIDTH(self) \in {2, 3, 4}
    /\ fn' = "inverse"
    /\ ret' = CASE WIDTH(self) = 2 -> inverse2(self)
                [] WIDTH(self) = 3 -> inverse3(self)
                [] WIDTH(self) = 4 -> inverse4(self)
    /\ UNCHANGED <<self, rhs>>
    /\ UNCHANGED mainVars

\* m * v
MulVector ==
    /\ Built
    /\ WIDTH(self) = 4 /\ HEIGHT(self) = 4
    /\ \E v \in Vectors4 :
          /\ rhs' = v
          /\ ret' = Ok(matrix_mul_vector(self, v))
    /\ fn' = "matrix_mul_vector"
    /\ UNCHANGED self
    /\ UNCHANGED mainVars

\* v * m
VectorMul ==
    /\ Built
    /\ WIDTH(self) = 4 /\ HEIGHT(self) = 4
    /\ \E v \in Vectors4 :
          /\ rhs' = v
          /\ ret' = Ok(vector_mul_matrix(v, self))
    /\ fn' = "vector_mul_matrix"
    /\ UNCHANGED self
    /\ UNCHANGED mainVars

\* Matrix4x4::perspective(fov_y, aspect, z_near, z_far), which starts from
\* Matrix4x4::default()
Perspective ==
    /\ fn = "Matrix::default"
    /\ WIDTH(self) = 4 /\ HEIGHT(self) = 4
    /\ \E fov_y \in FovYs, aspect \in Aspects, z_near \in ZNears, z_far \in ZFars :
          /\ rhs' = [fov_y |-> fov_y, aspect |-> aspect,
                     z_near |-> z_near, z_far |-> z_far]
          /\ ret' = Ok(perspective(fov_y, aspect, z_near, z_far))
    /\ fn' = "perspective"
    /\ UNCHANGED self
    /\ UNCHANGED mainVars

\* The translations handed to Matrix4x4::translate
Translations == {P3(x, y, z) : x \in Units, y \in Units, z \in Units}

\* Matrix4x4::translate(translation), which starts from Matrix4x4::identity()
Translate ==
    /\ fn = "Matrix::identity"
    /\ WIDTH(self) = 4 /\ HEIGHT(self) = 4
    /\ \E translation \in Translations :
          /\ rhs' = translation
          /\ ret' = Ok(translate(translation))
    /\ fn' = "translate"
    /\ UNCHANGED self
    /\ UNCHANGED mainVars

\* translate(translation) * v and v * translate(translation): the matrix
\* that translate returned is the receiver of the product
TranslationMul ==
    /\ fn = "translate"
    /\ self' = ret.val
    /\ \E v \in Vectors4 :
          /\ rhs' = v
          /\ \/ fn' = "matrix_mul_vector" /\ ret' = Ok(matrix_mul_vector(ret.val, v))
             \/ fn' = "vector_mul_matrix" /\ ret' = Ok(vector_mul_matrix(v, ret.val))
    /\ UNCHANGED mainVars

NextMatrix ==
    \/ Translate
    \/ TranslationMul
    \/ IndexMut
    \/ Transpose
    \/ ComponentOp
    \/ ComponentOpAssign
    \/ MatrixMul
    \/ Inverse
    \/ MulVector
    \/ VectorMul
    \/ Perspective

SpecMatrix == InitMatrix /\ [][NextMatrix]_vars

\* ------------------------------------------------------------------------
\* Claims about Matrix
\* ------------------------------------------------------------------------

\* m without its first row and its column c
Without(m, c) ==
    [y \in 0 .. COUNT(m) - 2 |->
        [x \in 0 .. COUNT(m) - 2 |-> m[y + 1][IF x < c THEN x ELSE x + 1]]]

\* The determinant of a square matrix, expanded along its first row
RECURSIVE Determinant(_), Expansion(_, _)
Determinant(m) == IF COUNT(m) = 1 THEN m[0][0] ELSE Expansion(m, 0)

Expansion(m, c) ==
    IF c >= COUNT(m) THEN Zero
    ELSE LET term == FMul(m[0][c], Determinant(Without(m, c)))
         IN  FAdd(IF c % 2 = 0 THEN term ELSE FNeg(term), Expansion(m, c + 1))

\* The sum over k of a[y][k] * b[k][x]
RECURSIVE RowByColumn(_, _, _, _, _)
RowByColumn(a, b, y, x, k) ==
    IF k >= WIDTH(a) THEN Zero
    ELSE FAdd(FMul(a[y][k], b[k][x]), RowByColumn(a, b, y, x, k + 1))

\* The row-by-column product of a and b, for WIDTH(a) = HEIGHT(b)
Product(a, b) ==
    [y \in 0 .. HEIGHT(a) - 1 |-> [x \in 0 .. WIDTH(b) - 1 |-> RowByColumn(a, b, y, x, 0)]]

\* C4: for a square matrix m of size 2, 3 or 4 whose determinant is not
\* zero, m * m.inverse() is the identity matrix of that size.
C4_TimesInverseIsIdentity ==
    (fn = "inverse" /\ FNe(Determinant(self), Zero)) =>
        /\ ret.tag = "ok"
        /\ matrix_mul(self, ret.val).tag = "ok"
        /\ matrix_mul(self, ret.val).val = identity(WIDTH(self), HEIGHT(self))

\* A 4x4 matrix that is not the identity has been inverted
C4_Witness ==
    /\ fn = "inverse"
    /\ WIDTH(self) = 4
    /\ FNe(Determinant(self), Zero)
    /\ self # identity(4, 4)
    /\ ret.tag = "ok"
    /\ ret.val # self

\* C5: a * b is accepted whenever WIDTH(a) = HEIGHT(b), and is then the
\* row-by-column product, HEIGHT(a) rows of WIDTH(b) cells.
C5_MulIsRowByColumn ==
    (fn = "matrix_mul" /\ WIDTH(self) = HEIGHT(rhs)) =>
        /\ ret.tag = "ok"
        /\ ret.val = Product(self, rhs)

\* C6: m.transpose() completes for every shape, has WIDTH and HEIGHT
\* swapped, holds m[y][x] in its cell [x][y], and transposed again is m.
C6_TransposeFlips ==
    fn = "transpose" =>
        /\ ret.tag = "ok"
        /\ HEIGHT(ret.val) = WIDTH(self)
        /\ WIDTH(ret.val) = HEIGHT(self)
        /\ \A y \in 0 .. HEIGHT(self) - 1 :
              \A x \in 0 .. WIDTH(self) - 1 : ret.val[x][y] = self[y][x]
        /\ transpose(ret.val).tag = "ok"
        /\ transpose(ret.val).val = self

\* C7: m op s and m op= s complete for every shape and apply op once to
\* every cell: the result's cell [y][x] is m[y][x] op s.
C7_ScalarOpOnEveryCell ==
    [][fn' \in {"component_op", "component_op_assign"} =>
          /\ ret'.tag = "ok"
          /\ \A y \in 0 .. HEIGHT(self) - 1 :
                \A x \in 0 .. WIDTH(self) - 1 :
                    ret'.val[y][x] = Apply(rhs'.call, self[y][x], rhs'.scalar)
          /\ fn' = "component_op_assign" => self' = ret'.val]_vars

\* C8: (M * v)[c] is the sum over k of M[c][k] * v[k], (v * M)[c] is the sum
\* over k of v[k] * M[k][c], and so v * M is transpose(M) * v.
C8_VectorConventions ==
    /\ fn = "matrix_mul_vector" =>
          \A c \in 0 .. 3 :
              ret.val[c] = Sum4(self[c][0], rhs[0], self[c][1], rhs[1],
                                self[c][2], rhs[2], self[c][3], rhs[3])
    /\ fn = "vector_mul_matrix" =>
          /\ \A c \in 0 .. 3 :
                ret.val[c] = Sum4(rhs[0], self[0][c], rhs[1], self[1][c],
                                  rhs[2], self[2][c], rhs[3], self[3][c])
          /\ ret.val = matrix_mul_vector(transpose(self).val, rhs)

\* C9: perspective(fov_y, aspect, z_near, z_far) has 1 / (aspect *
\* tan(fov_y / 2)) in cell [0][0], 1 / tan(fov_y / 2) in cell [1][1], the
\* depth mapping in cells [2][2] and [3][2], -1 in cell [2][3] and zero in
\* every other cell.
C9_PerspectiveScales ==
    fn = "perspective" =>
        LET one == get_one
            two == FAdd(one, one)
            tan_half == tan_delegate(FDiv(rhs.fov_y, two))
            depth == FSub(rhs.z_far, rhs.z_near)
        IN  ret.val =
                [MatrixDefault(4, 4) EXCEPT
                    ![0][0] = FDiv(one, FMul(rhs.aspect, tan_half)),
                    ![1][1] = FDiv(one, tan_half),
                    ![2][2] = FDiv(FNeg(FAdd(rhs.z_far, rhs.z_near)), depth),
                    ![2][3] = FNeg(one),
                    ![3][2] = FDiv(FNeg(FMul(FMul(two, rhs.z_far), rhs.z_near)), depth)]

\* ------------------------------------------------------------------------
\* Claims about normal_sdf
\* ------------------------------------------------------------------------

\* The point s displaced by 0.01 along each of the four offset directions
DisplacedPoints(s) ==
    [k \in 1 .. 4 |-> VAdd(s, VMulS(TetraOffsets[k], Rat(1, 100)))]

\* C10: the normal at a point is estimated from the scene distances at the
\* four points  point + 0.01 * k_i, as the sum of the k_i each weighted by
\* the distance at its point (normalized by the caller).
C10_NormalSamplesAroundPoint ==
    (pc = "print" /\ intersect) =>
        LET s  == SamplePoint(origin, direction, t)
            at == DisplacedPoints(s)
            k  == TetraOffsets
        IN  /\ samples = at
            /\ n = Some(normalize(
                       VAdd(VAdd(VAdd(VMulS(k[1], scene_sdf(scene, at[1])),
                                      VMulS(k[2], scene_sdf(scene, at[2]))),
                                 VMulS(k[3], scene_sdf(scene, at[3]))),
                            VMulS(k[4], scene_sdf(scene, at[4])))))

\* ------------------------------------------------------------------------
\* The march loop aimed at the centre of a sphere of radius 0.1
\* ------------------------------------------------------------------------

\* Unit vectors whose multiples have rational lengths
AimAxes ==
    {P3(get_one, Zero, Zero), P3(Zero, get_one, Zero), P3(Zero, Zero, get_one),
     P3(Rat(3, 5), Rat(4, 5), Zero), P3(Zero, Rat(3, 5), Rat(4, 5)),
     P3(Rat(2, 7), Rat(3, 7), Rat(6, 7))}

\* The distances of the march origin from the centre: just outside the
\* sphere, within the travel budget, at it, and beyond it
AimLengths ==
    {Rat(101, 1000), Rat(11, 100), Rat(1, 2), get_one, Int2F(5), Int2F(10),
     Rat(1009, 100), Rat(101, 10), Rat(203, 20), Int2F(20)}

InitSphere ==
    /\ LibIdle
    /\ pc = "while"
    /\ scene = [kind |-> "sphere", radius |-> Rat(1, 10)]
    /\ \E axis \in AimAxes, len \in AimLengths, side \in {get_one, FNeg(get_one)} :
          /\ origin = VMulS(axis, FMul(side, len))
          /\ direction = normalize(VNeg(VMulS(axis, FMul(side, len))))
    /\ t = Zero
    /\ r = None
    /\ intersect = FALSE
    /\ n = None
    /\ i = Zero
    /\ samples = <<>>
    /\ sampled = {}

SpecSphere == InitSphere /\ [][Next]_vars

\* The march is over, on the sphere of radius 0.1, from an origin outside
\* it, along the ray towards its centre
AimedAtSphere ==
    /\ pc = "print"
    /\ scene = [kind |-> "sphere", radius |-> Rat(1, 10)]
    /\ FGt(magnitude(origin), Rat(1, 10))
    /\ direction = normalize(VNeg(origin))

\* The distance from the march origin to the surface of the sphere
ToSurface == FSub(magnitude(origin), Rat(1, 10))

\* A hit is reported, at a t within 0.001 of the distance to the surface
HitAtSurface ==
    /\ intersect
    /\ FLe(FAbs(FSub(t, ToSurface)), Rat(1, 1000))

\* C11, as stated: from every origin outside the sphere the march towards
\* its centre reports a hit, at a t within 0.001 of the distance to the
\* surface.
C11_HitFromEveryOrigin == AimedAtSphere => HitAtSurface

\* C11, amended: so it is from every origin less than the travel budget of
\* 10.0 away from the surface; from one further away the first step already
\* takes t to the budget and a miss is reported.
C11_HitWithinBudget ==
    AimedAtSphere =>
        IF FLt(ToSurface, Int2F(10)) THEN HitAtSurface ELSE ~intersect

\* A hit after the ray has travelled to the surface
C11_Witness ==
    /\ AimedAtSphere
    /\ intersect
    /\ FGt(t, Int2F(9))
    /\ Cardinality(sampled) = 2

\* ------------------------------------------------------------------------
\* More claims about Ray3D
\* ------------------------------------------------------------------------

\* a = (p2 - p1) . (direction x (p3 - p1)) of the call in hand
TripleProduct ==
    dot(VSub(rhs[2], rhs[1]), cross(self.direction, VSub(rhs[3], rhs[1])).val)

\* C12: whenever |a| < EPSILON, intersect_triangle returns an absent result.
C12_ParallelIsMiss ==
    (fn = "intersect_triangle" /\ FLt(FAbs(TripleProduct), EPSILON)) => ret = None

\* A miss on a triangle that the ray is not exactly parallel to, yet within
\* EPSILON of it
C12_Witness ==
    /\ fn = "intersect_triangle"
    /\ FLt(FAbs(TripleProduct), EPSILON)
    /\ FNe(TripleProduct, Zero)
    /\ ret = None

\* a + b of the reals, unrounded
ExactSum(a, b) == Rat(a[1] * b[2] + b[1] * a[2], a[2] * b[2])

\* The point p moved by d with no rounding
MovedPoint(p, d) == [c \in DOMAIN p |-> ExactSum(p[c], d[c])]

\* The step has moved the ray origin and the three vertices by d, and no
\* coordinate was rounded on the way
MovedExactly(d) ==
    /\ self'.origin = MovedPoint(self.origin, d)
    /\ \A k \in 1 .. 3 : rhs'[k] = MovedPoint(rhs[k], d)

\* C13, as stated: the call on a ray and a triangle moved by one offset
\* gives the outcome, and the (u, v, t), of the call on the ray and the
\* triangle where they were.
C13_TranslationInvariant ==
    [][fn' = "intersect_triangle" =>
          ret' = intersect_triangle(self, rhs[1], rhs[2], rhs[3])]_vars

\* C13, amended: it does so whenever moving the origin and the vertices
\* rounds none of their coordinates.
C13_ExactTranslationInvariant ==
    [][(fn' = "intersect_triangle" /\ \E d \in OffsetsOf(rhs) : MovedExactly(d)) =>
          ret' = intersect_triangle(self, rhs[1], rhs[2], rhs[3])]_vars

\* A hit on a triangle that has been moved with no rounding
C13_Witness ==
    /\ fn = "intersect_triangle"
    /\ \E tri \in Triangles : \E d \in OffsetsOf(tri) :
          rhs = <<MovedPoint(tri[1], d), MovedPoint(tri[2], d), MovedPoint(tri[3], d)>>
    /\ ret.some
    /\ FGt(ret.val[1], Zero)

\* C18: for every square matrix m of 2x2, 3x3, 4x4, identity() * m == m
\* and m * identity() == m, identity() being one on the main diagonal and
\* zero elsewhere.
C18_IdentityIsNeutral ==
    (/\ fn = "matrix_mul"
     /\ WIDTH(self) = HEIGHT(self)
     /\ WIDTH(self) \in 2 .. 4
     /\ SameShape(self, rhs)) =>
        LET one == identity(WIDTH(self), HEIGHT(self))
        IN  /\ \A y \in 0 .. HEIGHT(self) - 1 : \A x \in 0 .. WIDTH(self) - 1 :
                  one[y][x] = IF x = y THEN get_one ELSE Zero
            /\ self = one => ret = Ok(rhs)
            /\ rhs = one => ret = Ok(self)

\* identity() * m has given m back, for a 3x3 m that is no identity
C18_Witness ==
    /\ fn = "matrix_mul"
    /\ self = identity(3, 3)
    /\ rhs = Matrix_from_array(Dense(3, 3))
    /\ ret = Ok(rhs)

\* C21: translate(t) has the identity in its upper-left 3x3 block, its
\* product with a point (x, y, z, 1) is (x + t[0], y + t[1], z + t[2], 1),
\* and its product with a direction (x, y, z, 0) is the direction.
C21_TranslateIsPureTranslation ==
    [][/\ Translate =>
            \A y \in 0 .. 2 : \A x \in 0 .. 2 :
                ret'.val[y][x] = IF x = y THEN get_one ELSE Zero
       /\ (TranslationMul /\ rhs'[3] = get_one) =>
            ret'.val = Vector4_new(FAdd(rhs'[0], rhs[0]), FAdd(rhs'[1], rhs[1]),
                                   FAdd(rhs'[2], rhs[2]), get_one)
       /\ (TranslationMul /\ rhs'[3] = Zero) => ret'.val = rhs']_vars

\* ------------------------------------------------------------------------
\* The vector operations on their own (vector.rs)
\* ------------------------------------------------------------------------

\* The sizes of the common vector types
VectorDims == {2, 3, 4}

\* The components the vectors of each size are built from. The 2-vectors
\* carry 2^24, past which f32 no longer holds every integer; the 3-vectors
\* carry 4097, whose square is rounded.
Components(count) ==
    CASE count = 2 -> {Zero, get_one, Rat(1, 2), Int2F(2 ^ F32_MANTISSA_DIGITS)}
      [] count = 3 -> {Zero, get_one, Int2F(-1), Int2F(4097)}
      [] OTHER -> {Zero, get_one}

\* Every vector of the size over its components
VectorsOf(count) == [0 .. count - 1 -> Components(count)]

\* The positional constructors of the size, f32 first
Constructor(count) ==
    CASE count = 2 -> <<"Vector2::new", "HiVector2::new">>
      [] count = 3 -> <<"Vector3::new", "HiVector3::new">>
      [] OTHER -> <<"Vector4::new", "HiVector4::new">>

\* The constructor called with the components of v as its arguments
Positional(name, v) ==
    CASE name = "Vector2::new" -> Vector2_new(v[0], v[1])
      [] name = "HiVector2::new" -> HiVector2_new(v[0], v[1])
      [] name = "Vector3::new" -> Vector3_new(v[0], v[1], v[2])
      [] name = "HiVector3::new" -> HiVector3_new(v[0], v[1], v[2])
      [] name = "Vector4::new" -> Vector4_new(v[0], v[1], v[2], v[3])
      [] OTHER -> HiVector4_new(v[0], v[1], v[2], v[3])

InitVector ==
    /\ MainIdle
    /\ fn = "Vector::from_array"
    /\ \E count \in VectorDims : self \in VectorsOf(count) /\ rhs \in VectorsOf(count)
    /\ ret = NotCalled

\* self.cross(rhs)
Cross ==
    /\ fn = "Vector::from_array"
    /\ fn' = "cross"
    /\ ret' = cross(self, rhs)
    /\ UNCHANGED <<self, rhs>>
    /\ UNCHANGED mainVars

\* self + rhs
VectorAdd ==
    /\ fn = "Vector::from_array"
    /\ fn' = "add"
    /\ ret' = Ok(VAdd(self, rhs))
    /\ UNCHANGED <<self, rhs>>
    /\ UNCHANGED mainVars

\* (self + rhs) - rhs
VectorSub ==
    /\ fn = "add"
    /\ fn' = "sub"
    /\ ret' = Ok(VSub(ret.val, rhs))
    /\ UNCHANGED <<self, rhs>>
    /\ UNCHANGED mainVars

\* Vector::<t, into_count>::from(self)
VectorFrom ==
    /\ fn = "Vector::from_array"
    /\ fn' = "from"
    /\ \E into_count \in VectorDims \ {COUNT(self)} : ret' = vector_from(self, into_count)
    /\ UNCHANGED <<self, rhs>>
    /\ UNCHANGED mainVars

\* Vector2::new .. HiVector4::new on the components of self
VectorNew ==
    /\ fn = "Vector::from_array"
    /\ \E p \in 1 .. 2 :
          /\ fn' = Constructor(COUNT(self))[p]
          /\ ret' = Ok(Positional(Constructor(COUNT(self))[p], self))
    /\ UNCHANGED <<self, rhs>>
    /\ UNCHANGED mainVars

NextVector == Cross \/ VectorAdd \/ VectorSub \/ VectorFrom \/ VectorNew

SpecVector == InitVector /\ [][NextVector]_vars

\* C14: cross on a vector of a size other than 3 ends in a panic that names
\* the size and gives no vector back; cross on two 3-vectors never panics.
C14_CrossOnlyOnThree ==
    fn = "cross" =>
        IF COUNT(self) = 3
        THEN ret.tag = "ok" /\ COUNT(ret.val) = 3
        ELSE ret.tag = "panic" /\ ret.components = COUNT(self) /\ "val" \notin DOMAIN ret

\* cross has panicked on 4-vectors and has named the 4
C14_Witness ==
    /\ fn = "cross"
    /\ COUNT(self) = 4
    /\ self # VectorDefault(4)
    /\ ret.tag = "panic"
    /\ ret.components = 4

\* C15: a conversion from size N to a different size M of 2, 3, 4 copies
\* the first min(N, M) components in order and leaves zero in the others.
C15_ConversionCopiesLeading ==
    fn = "from" =>
        /\ ret.tag = "ok"
        /\ DOMAIN ret.val \in {0 .. into_count - 1 : into_count \in VectorDims \ {COUNT(self)}}
        /\ \A c \in DOMAIN ret.val :
              ret.val[c] = IF c < COUNT(self) /\ c < COUNT(ret.val) THEN self[c] ELSE Zero

\* A 2-vector of no zero has been widened to 4, and a 4-vector whose last
\* component is no zero is what a conversion to 3 has cut
C15_Witness ==
    /\ fn = "from"
    /\ \/ /\ COUNT(self) = 2 /\ COUNT(ret.val) = 4
          /\ self[0] # Zero /\ self[1] # Zero /\ self[0] # self[1]
          /\ ret.val = Array(<<self[0], self[1], Zero, Zero>>)
       \/ /\ COUNT(self) = 4 /\ COUNT(ret.val) = 3
          /\ self[3] # Zero /\ self[2] # Zero /\ self[0] = Zero
          /\ ret.val = Array(<<self[0], self[1], self[2]>>)

\* No component of a + b is rounded
SumIsExact(a, b) == \A c \in DOMAIN a : FAdd(a[c], b[c]) = ExactSum(a[c], b[c])

\* C16, as stated: (a + b)[i] is a[i] + b[i] for every i, a + b - b == a
\* under the component-wise equality, and no operand is changed.
C16_AddThenSubIsExact ==
    [][/\ fn' = "add" =>
            /\ \A c \in DOMAIN self : ret'.val[c] = FAdd(self[c], rhs[c])
            /\ self' = self /\ rhs' = rhs
       /\ fn' = "sub" =>
            /\ VEq(ret'.val, self)
            /\ self' = self /\ rhs' = rhs]_vars

\* C16, amended: a + b - b == a whenever no component of a + b is rounded.
C16_ExactSumThenSubIsExact ==
    [][/\ fn' = "add" =>
            /\ \A c \in DOMAIN self : ret'.val[c] = FAdd(self[c], rhs[c])
            /\ self' = self /\ rhs' = rhs
       /\ fn' = "sub" =>
            /\ SumIsExact(self, rhs) => VEq(ret'.val, self)
            /\ self' = self /\ rhs' = rhs]_vars

\* a + b - b has given a back, for an a and a b of no zero
C16_Witness ==
    /\ fn = "sub"
    /\ \A c \in DOMAIN self : self[c] # Zero /\ rhs[c] # Zero
    /\ self # rhs
    /\ SumIsExact(self, rhs)
    /\ ret = Ok(self)

\* C17: cross([1,0,0],[0,1,0]) == [0,0,1], and cross(a, b) == -cross(b, a)
\* for all 3-vectors a and b.
C17_CrossRightHandedAntiCommutative ==
    (fn = "cross" /\ COUNT(self) = 3) =>
        /\ ret.tag = "ok"
        /\ VEq(ret.val, VNeg(cross(rhs, self).val))
        /\ (self = P3(get_one, Zero, Zero) /\ rhs = P3(Zero, get_one, Zero)) =>
              VEq(ret.val, P3(Zero, Zero, get_one))

\* The cross of the x axis and the y axis has been taken, and it is the z
\* axis
C17_Witness ==
    /\ fn = "cross"
    /\ self = P3(get_one, Zero, Zero)
    /\ rhs = P3(Zero, get_one, Zero)
    /\ ret = Ok(P3(Zero, Zero, get_one))

\* The names of the positional constructors
ConstructorNames == {Constructor(count)[p] : count \in VectorDims, p \in 1 .. 2}

\* C20: new(x, y[, z[, w]]) of each of the six vector types is
\* from_array([x, y, z, w]): component i is the i-th argument.
C20_NewIsFromArray == fn \in ConstructorNames => ret = Ok(from_array(self))

\* ------------------------------------------------------------------------
\* ScopedStopwatch (perf/scoped_stopwatch.rs)
\* ------------------------------------------------------------------------

\* ScopedStopwatch::new
ScopedStopwatch_new(id) == [start |-> None, id |-> id]

\* ScopedStopwatch::begin, now being what time::Instant::now() returns
begin(s, now) == [s EXCEPT !.start = Some(now)]

\* ScopedStopwatch::new_begin
new_begin(id, now) == begin(ScopedStopwatch_new(id), now)

\* Drop for ScopedStopwatch: the line "{id} took {elapsed}s", or the panic
\* of self.start.unwrap() on None
drop(s, now) ==
    IF ~s.start.some THEN Panic("called Option::unwrap() on a None value")
    ELSE Ok([id |-> s.id, took |-> Int2F(now - s.start.val)])

\* The clock is read up to the instant MaxInstant.
MaxInstant == 8

\* The ids main gives its two stopwatches
StopwatchIds == {"SDF", "RUN"}

\* The stopwatch has been created and not dropped
Alive == fn \in {"ScopedStopwatch::new", "ScopedStopwatch::new_begin", "begin"}

\* No stopwatch yet; rhs is the monotonic clock that Instant::now() reads
InitStopwatch ==
    /\ MainIdle
    /\ fn = "none"
    /\ self = Nothing
    /\ rhs = [now |-> 0]
    /\ ret = NotCalled

\* Time passes
Tick ==
    /\ rhs.now < MaxInstant
    /\ rhs' = [now |-> rhs.now + 1]
    /\ UNCHANGED <<fn, self, ret>>
    /\ UNCHANGED mainVars

StopwatchNew ==
    /\ fn = "none"
    /\ fn' = "ScopedStopwatch::new"
    /\ \E id \in StopwatchIds : self' = ScopedStopwatch_new(id)
    /\ UNCHANGED <<rhs, ret>>
    /\ UNCHANGED mainVars

StopwatchNewBegin ==
    /\ fn = "none"
    /\ fn' = "ScopedStopwatch::new_begin"
    /\ \E id \in StopwatchIds : self' = new_begin(id, rhs.now)
    /\ UNCHANGED <<rhs, ret>>
    /\ UNCHANGED mainVars

StopwatchBegin ==
    /\ Alive
    /\ fn' = "begin"
    /\ self' = begin(self, rhs.now)
    /\ UNCHANGED <<rhs, ret>>
    /\ UNCHANGED mainVars

\* The stopwatch leaves its scope
StopwatchDrop ==
    /\ Alive
    /\ fn' = "drop"
    /\ ret' = drop(self, rhs.now)
    /\ UNCHANGED <<self, rhs>>
    /\ UNCHANGED mainVars

NextStopwatch ==
    Tick \/ StopwatchNew \/ StopwatchNewBegin \/ StopwatchBegin \/ StopwatchDrop

SpecStopwatch == InitStopwatch /\ [][NextStopwatch]_vars

\* C19: whichever way the stopwatch was created and however often it was
\* begun, its drop prints the time elapsed since the last start and ends
\* without a panic, a stopwatch that was never begun included.
C19_DropAlwaysReports ==
    [][StopwatchDrop =>
          /\ ret'.tag = "ok"
          /\ ret'.val.id = self.id
          /\ self.start.some => ret'.val.took = Int2F(rhs.now - self.start.val)]_vars

====
